---- MODULE Spec2Model ----
(***************************************************************************)
(* CricForecaster statistics engine: the per-delivery classifiers, the     *)
(* per-innings folds, the career aggregators with their derived metrics,   *)
(* the date-sorted discovery of match files, and the thread-pool batch     *)
(* scripts that write batting_stats.json / bowling_stats.json.             *)
(*                                                                         *)
(* Numbers that the Python code keeps as floats are kept here as exact     *)
(* integers in a fixed unit (hundredths for values rounded to 2 decimals,  *)
(* tenths for overs), and float('inf') as the distinguished value Inf.     *)
(***************************************************************************)
EXTENDS Integers, Sequences, FiniteSets, TLC

VARIABLES
    \* calls of the delivery classifiers on one delivery
    arg,            \* the delivery handed to the classifiers
    called,         \* which classifiers have returned: "batting", "bowling"
    bat_d,          \* what process_delivery returned
    bowl_d,         \* what process_delivery_bowling returned
    \* one innings folded by process_innings / process_innings_bowling
    fold,           \* which fold runs: "batting", "bowling" ("none": idle)
    ipc,            \* "overs": the loop over overs, "deliveries": the loop
                    \* over an over's deliveries, "done": returned
    n_overs,        \* overs read so far
    n_dels,         \* deliveries read so far
    stats,          \* process_innings: the BattingStats being accumulated
    over_stats,     \* process_innings_bowling: the current over's sub-totals
    inn_stats,      \* process_innings_bowling: the BowlingStats accumulated
    hist,           \* history of the deliveries read (not program state)
    \* one player's career aggregated by get_batting_stats / get_bowling_stats
    career,         \* which aggregator runs: "batting", "bowling" ("none": idle)
    cpc,            \* "files": the loop over the sorted match files,
                    \* "innings": the loop over a file's innings, "done"
    match_id,       \* the file being read: its place in the sorted list
    inning_idx,     \* the index of the next innings of the file
    matches_played, \* set of match ids
    innings_played, \* set of <<match id, innings index>>
    totals,         \* get_batting_stats: the running totals
    innings_out_flags, \* get_batting_stats: <<match id, index>> -> out
    innings_scores, \* get_batting_stats: the runs of each innings batted in
    all_stats,      \* process_matches_for_player: <<match id, index, stats>>
    result,         \* what the aggregator returned
    chist,          \* history of the innings read (not program state)
    \* the match files found and sorted by get_match_files_sorted_by_date
    folder,         \* the files of the folder, in the order glob yields them
    fpc,            \* "glob": the loop over the folder, "sort", "read": the
                    \* aggregator's loop over the sorted files, "done",
                    \* "raised": an exception left the function
    next_file,      \* the place in folder (glob) or in the sorted list (read)
    file_date_pairs,   \* <<file, date>> of the files kept
    sorted_json_files, \* the files returned
    opened,         \* the files the aggregator has read the innings of
    \* the batch scripts save_batting_stats_to_json / save_bowling_stats_to_json
    harness,        \* which script runs: "batting", "bowling" ("none": idle)
    outcome,        \* player -> what process_player does for him on the
                    \* corpus: "stats", "none" (never bowled), "raises"
    run_no,         \* the run of the script on the corpus: 1, then 2
    bpc,            \* the main thread: "submitted", "collecting", "written"
    future,         \* player -> "queued", "running", "finished"
    finished_set,   \* as_completed: futures finished when it was called
    waiter,         \* as_completed: futures finished since, in that order
    yielded,        \* the futures as_completed has yielded
    batch_stats,    \* the dict, as its <<player, stats>> in insertion order
    reported,       \* the lines printed: who completed, how many errors/skips
    output          \* run -> the file written (its pairs in serialized order)

delivery_vars == <<arg, called, bat_d, bowl_d>>
innings_vars == <<fold, ipc, n_overs, n_dels, stats, over_stats, inn_stats, hist>>

career_vars ==
    <<career, cpc, match_id, inning_idx, matches_played, innings_played,
      totals, innings_out_flags, innings_scores, all_stats, result, chist>>

discovery_vars ==
    <<folder, fpc, next_file, file_date_pairs, sorted_json_files, opened>>

batch_vars ==
    <<harness, outcome, run_no, bpc, future, finished_set, waiter, yielded,
      batch_stats, reported, output>>

vars == <<delivery_vars, innings_vars, career_vars, discovery_vars, batch_vars>>

\* ------------------------------------------------------------------ bounds
\* Largest amount recorded for one kind of extras on a delivery.
MaxExtra == 2
\* Most kinds of extras recorded on one delivery.
MaxExtraKinds == 2
\* Most wicket entries on one delivery.
MaxWickets == 2
\* Most overs of an innings, and most deliveries of an innings.
MaxOvers == 2
MaxDeliveries == 3
\* Most match files of the corpus.
MaxMatches == 3
\* Most files in the folder, and the latest date of a match.
MaxFiles == 3
MaxDate == 2
\* Most players of players.json.
MaxPlayers == 3

\* ------------------------------------------------------------- input data
\* The target player and one other player.
Player == "P"
Players == {"P", "Q"}

\* Runs off the bat: a dot, a single, a four, a six.
RunValues == {0, 1, 4, 6}

ExtraKinds == {"wides", "noballs", "byes", "legbyes"}
WicketKinds == {"run out", "bowled"}

\* The amount an extras mapping records for a kind (0: the kind is absent).
Amount(extras, kind) == IF kind \in DOMAIN extras THEN extras[kind] ELSE 0

\* The total of an extras mapping.
TotalExtras(extras) ==
    Amount(extras, "wides") + Amount(extras, "noballs")
    + Amount(extras, "byes") + Amount(extras, "legbyes")

\* The "extras" mapping of a delivery: kind -> amount, for the kinds present.
ExtrasMaps ==
    UNION {[S -> 1..MaxExtra] :
             S \in {T \in SUBSET ExtraKinds : Cardinality(T) <= MaxExtraKinds}}

Wickets == [player_out : Players, kind : WicketKinds]

WicketLists == UNION {[1..n -> Wickets] : n \in 0..MaxWickets}

\* A delivery of a match file.  hasExtras says whether the "extras" key is
\* present (its mapping is empty when it is not); runs_extras is runs.extras,
\* the total of the extras of the delivery; an absent "wickets" key reads as
\* the empty list, as delivery.get("wickets", []) does.
Deliveries ==
    {d \in [batter : Players, bowler : Players, runs_batter : RunValues,
            hasExtras : BOOLEAN, extras : ExtrasMaps,
            runs_extras : 0..(MaxExtra * MaxExtraKinds),
            wickets : WicketLists] :
        /\ (~d.hasExtras => DOMAIN d.extras = {})
        /\ d.runs_extras = TotalExtras(d.extras)}

\* The deliveries the innings folds are run on: amounts of 1, a dot or a
\* four off the bat, a four only on a delivery without extras or on a
\* no-ball, a wicket only on a dot that is otherwise plain or a wide, and
\* several wicket entries naming the other player first.
OverExtras ==
    {[k \in S |-> 1] : S \in {{}, {"wides"}, {"noballs"}, {"byes"},
                               {"noballs", "byes"}, {"wides", "noballs"}}}

OverWickets ==
    {ws \in WicketLists :
        \A i \in DOMAIN ws :
            i > 1 => /\ ws[1].player_out # Player
                     /\ ws[i].player_out # ws[i - 1].player_out}

OverShapes ==
    {x \in {0, 4} \X OverExtras \X OverWickets :
        /\ (x[1] = 4 => DOMAIN x[2] \in {{}, {"noballs"}})
        /\ (x[3] # <<>> => x[1] = 0 /\ DOMAIN x[2] \in {{}, {"wides"}})}

OverDeliveries ==
    {[batter |-> bt, bowler |-> bw, runs_batter |-> x[1],
      hasExtras |-> DOMAIN x[2] # {}, extras |-> x[2],
      runs_extras |-> TotalExtras(x[2]), wickets |-> x[3]] :
        bt \in Players, bw \in Players, x \in OverShapes}

\* -------------------------------------------------------- cricket_utils.py
is_wide(delivery) == "wides" \in DOMAIN delivery.extras

is_no_ball(delivery) == "noballs" \in DOMAIN delivery.extras

\* ---------------------------------------------------- get_batting_stats.py
\* BattingStats(): the dataclass defaults.
BattingStats ==
    [balls_faced |-> 0, runs |-> 0, fours |-> 0, sixes |-> 0,
     dot_balls |-> 0, boundary_balls |-> 0, out |-> FALSE]

\* A mutant of process_delivery: the dismissal is looked for on every
\* delivery, also when another batter is on strike.
process_delivery_any_batter(delivery, player) ==
    LET run == IF delivery.batter = player THEN delivery.runs_batter ELSE 0
        faced == delivery.batter = player /\ ~is_wide(delivery)
    IN  [balls_faced |-> IF faced THEN 1 ELSE 0,
         runs |-> run,
         fours |-> IF faced /\ run = 4 THEN 1 ELSE 0,
         sixes |-> IF faced /\ run = 6 THEN 1 ELSE 0,
         dot_balls |-> IF faced /\ run = 0 THEN 1 ELSE 0,
         boundary_balls |-> IF faced /\ run \in {4, 6} THEN 1 ELSE 0,
         out |-> \E i \in DOMAIN delivery.wickets :
                     delivery.wickets[i].player_out = player]

\* A mutant of process_delivery: the batter is not looked at, and the
\* delivery is counted as if the player had faced it.
process_delivery_no_guard(delivery, player) ==
    LET run == delivery.runs_batter
        notWide == ~is_wide(delivery)
    IN  [balls_faced |-> IF notWide THEN 1 ELSE 0,
         runs |-> run,
         fours |-> IF notWide /\ run = 4 THEN 1 ELSE 0,
         sixes |-> IF notWide /\ run = 6 THEN 1 ELSE 0,
         dot_balls |-> IF notWide /\ run = 0 THEN 1 ELSE 0,
         boundary_balls |-> IF notWide /\ run \in {4, 6} THEN 1 ELSE 0,
         out |-> \E i \in DOMAIN delivery.wickets :
                     delivery.wickets[i].player_out = player]

process_delivery(delivery, player) ==
    IF delivery.batter # player THEN BattingStats
    ELSE LET run == delivery.runs_batter
             notWide == ~is_wide(delivery)
         IN  [balls_faced |-> IF notWide THEN 1 ELSE 0,
              runs |-> run,
              fours |-> IF notWide /\ run = 4 THEN 1 ELSE 0,
              sixes |-> IF notWide /\ run # 4 /\ run = 6 THEN 1 ELSE 0,
              dot_balls |->
                  IF notWide /\ run # 4 /\ run # 6 /\ run = 0 THEN 1 ELSE 0,
              boundary_balls |->
                  IF notWide /\ (run = 4 \/ run = 6) THEN 1 ELSE 0,
              out |-> \E i \in DOMAIN delivery.wickets :
                          delivery.wickets[i].player_out = player]

\* ---------------------------------------------------- get_bowling_stats.py
\* BowlingStats(): the dataclass defaults (overs stays 0.0 below the career).
BowlingStats ==
    [overs |-> 0, balls |-> 0, runs_conceded |-> 0, wickets |-> 0,
     dot_balls |-> 0, boundary_balls |-> 0, extras |-> 0, wides |-> 0,
     no_balls |-> 0]

RECURSIVE count_wickets(_, _)
\* The loop over delivery["wickets"], from entry i on: one wicket per entry
\* whose kind is not "run out".
count_wickets(wickets, i) ==
    IF i > Len(wickets) THEN 0
    ELSE (IF wickets[i].kind # "run out" THEN 1 ELSE 0)
         + count_wickets(wickets, i + 1)

\* A mutant of bowler_wickets: every wicket entry is credited, run-outs too.
bowler_wickets_all(delivery) == Len(delivery.wickets)

\* Wickets credited to the bowler on a delivery.
bowler_wickets(delivery) == count_wickets(delivery.wickets, 1)

\* A mutant of legal_ball: only a no-ball is illegal.
legal_ball_wide_counts(delivery) == ~is_no_ball(delivery)

\* A ball that counts toward balls: neither a wide nor a no-ball.
legal_ball(delivery) == ~is_wide(delivery) /\ ~is_no_ball(delivery)

\* Runs conceded on a delivery of the player's.
runs_conceded_of(delivery) ==
    LET batter_runs == delivery.runs_batter
        extras_runs ==
            IF delivery.hasExtras /\ (is_wide(delivery) \/ is_no_ball(delivery))
            THEN delivery.runs_extras ELSE 0
    IN  batter_runs + extras_runs

\* A mutant of process_delivery_bowling: a delivery with wides and noballs
\* is counted as a wide and as a no-ball.
process_delivery_bowling_both(delivery, player) ==
    IF delivery.bowler # player THEN BowlingStats
    ELSE LET batter_runs == delivery.runs_batter
             legal == legal_ball(delivery)
         IN  [overs |-> 0,
              balls |-> IF legal THEN 1 ELSE 0,
              runs_conceded |-> runs_conceded_of(delivery),
              wickets |-> bowler_wickets(delivery),
              dot_balls |-> IF legal /\ batter_runs = 0 THEN 1 ELSE 0,
              boundary_balls |->
                  IF legal /\ (batter_runs = 4 \/ batter_runs = 6) THEN 1 ELSE 0,
              extras |-> IF delivery.hasExtras THEN 1 ELSE 0,
              wides |-> IF delivery.hasExtras /\ is_wide(delivery) THEN 1 ELSE 0,
              no_balls |->
                  IF delivery.hasExtras /\ is_no_ball(delivery) THEN 1 ELSE 0]

process_delivery_bowling(delivery, player) ==
    IF delivery.bowler # player THEN BowlingStats
    ELSE LET batter_runs == delivery.runs_batter
             legal == legal_ball(delivery)
         IN  [overs |-> 0,
              balls |-> IF legal THEN 1 ELSE 0,
              runs_conceded |-> runs_conceded_of(delivery),
              wickets |-> bowler_wickets(delivery),
              dot_balls |-> IF legal /\ batter_runs = 0 THEN 1 ELSE 0,
              boundary_balls |->
                  IF legal /\ batter_runs # 0
                     /\ (batter_runs = 4 \/ batter_runs = 6) THEN 1 ELSE 0,
              extras |-> IF delivery.hasExtras THEN 1 ELSE 0,
              wides |-> IF delivery.hasExtras /\ is_wide(delivery) THEN 1 ELSE 0,
              no_balls |->
                  IF delivery.hasExtras /\ ~is_wide(delivery)
                     /\ is_no_ball(delivery) THEN 1 ELSE 0]

\* ------------------------------------------- the classifiers on one delivery
NoDelivery ==
    [batter |-> "Q", bowler |-> "Q", runs_batter |-> 0, hasExtras |-> FALSE,
     extras |-> <<>>, runs_extras |-> 0, wickets |-> <<>>]

DeliveryIdle ==
    /\ arg = NoDelivery
    /\ called = {}
    /\ bat_d = BattingStats
    /\ bowl_d = BowlingStats

DeliveryStart ==
    /\ arg \in Deliveries
    /\ called = {}
    /\ bat_d = BattingStats
    /\ bowl_d = BowlingStats

CallProcessDelivery ==
    /\ "batting" \notin called
    /\ bat_d' = process_delivery(arg, Player)
    /\ called' = called \cup {"batting"}
    /\ UNCHANGED <<arg, bowl_d, innings_vars, career_vars, discovery_vars, batch_vars>>

CallProcessDeliveryBowling ==
    /\ "bowling" \notin called
    /\ bowl_d' = process_delivery_bowling(arg, Player)
    /\ called' = called \cup {"bowling"}
    /\ UNCHANGED <<arg, bat_d, innings_vars, career_vars, discovery_vars, batch_vars>>

DeliveryNext == CallProcessDelivery \/ CallProcessDeliveryBowling

\* ------------------------------------------------------- one innings folded
\* process_innings, the body of its inner loop: d_stats added to stats.
add_batting(s, d_stats) ==
    [balls_faced |-> s.balls_faced + d_stats.balls_faced,
     runs |-> s.runs + d_stats.runs,
     fours |-> s.fours + d_stats.fours,
     sixes |-> s.sixes + d_stats.sixes,
     dot_balls |-> s.dot_balls + d_stats.dot_balls,
     boundary_balls |-> s.boundary_balls + d_stats.boundary_balls,
     out |-> IF d_stats.out THEN TRUE ELSE s.out]

\* process_innings_bowling: the field-wise sum used for d_stats into
\* over_stats, and for over_stats into stats.
add_bowling(s, t) ==
    [overs |-> s.overs,
     balls |-> s.balls + t.balls,
     runs_conceded |-> s.runs_conceded + t.runs_conceded,
     wickets |-> s.wickets + t.wickets,
     dot_balls |-> s.dot_balls + t.dot_balls,
     boundary_balls |-> s.boundary_balls + t.boundary_balls,
     extras |-> s.extras + t.extras,
     wides |-> s.wides + t.wides,
     no_balls |-> s.no_balls + t.no_balls]

\* A mutant of merge_over: every over is merged.
merge_over_always(s, o) == add_bowling(s, o)

\* process_innings_bowling, after an over's deliveries: the over is merged
\* if the bowler bowled legal balls in it.
merge_over(s, o) == IF o.balls > 0 THEN add_bowling(s, o) ELSE s

\* What has been read so far, kept beside the program's state to state the
\* properties of the folds against the input.
\*   out_any     a wicket entry named the player, on any delivery
\*   out_facing  a wicket entry named the player, on a delivery he faced
\*   faced       deliveries the player faced that were not wides
\*   wide        a wide of the player's was read (faced by him in the
\*               batting fold, bowled by him in the bowling fold)
\*   legal       the player's legal deliveries (innings)
\*   over_legal  the player's legal deliveries (current over)
\*   over_wk     non-run-out wicket entries on the player's deliveries
\*               (current over)
\*   wk_merged   the same, over the overs merged so far
\*   wk_all      the same, over all overs read so far
\*   multi       a delivery of the player's had several non-run-out entries
\*   run_out     a delivery of the player's had a run-out entry
\*   own         the batting totals of the deliveries the player faced,
\*               the deliveries faced by other batters taken out
\*   others      the deliveries read that another batter faced
\*   over_mine   the deliveries the player bowled (current over)
\*   over_wides  those of them with wides among their extras
\*   over_nb     those of them with noballs and no wides
\*   mine_merged the deliveries the player bowled in the overs in which he
\*               bowled a legal ball
\*   both        a delivery of the player's had wides and noballs
NoHist ==
    [out_any |-> FALSE, out_facing |-> FALSE, faced |-> 0, wide |-> FALSE,
     legal |-> 0, over_legal |-> 0, over_wk |-> 0,
     wk_merged |-> 0, wk_all |-> 0, multi |-> FALSE, run_out |-> FALSE,
     own |-> BattingStats, others |-> 0,
     over_mine |-> 0, over_wides |-> 0, over_nb |-> 0, mine_merged |-> 0,
     both |-> FALSE]

NonRunOut(d) == {i \in DOMAIN d.wickets : d.wickets[i].kind # "run out"}

NamesPlayer(d) == \E i \in DOMAIN d.wickets : d.wickets[i].player_out = Player

\* The batting totals t with a delivery the player faced counted in.
OwnDelivery(t, d) ==
    LET ball == "wides" \notin DOMAIN d.extras
        n(b) == IF b THEN 1 ELSE 0
    IN  [balls_faced |-> t.balls_faced + n(ball),
         runs |-> t.runs + d.runs_batter,
         fours |-> t.fours + n(ball /\ d.runs_batter = 4),
         sixes |-> t.sixes + n(ball /\ d.runs_batter = 6),
         dot_balls |-> t.dot_balls + n(ball /\ d.runs_batter = 0),
         boundary_balls |-> t.boundary_balls + n(ball /\ d.runs_batter \in {4, 6}),
         out |-> t.out \/ NamesPlayer(d)]

HistBatting(h, d) ==
    [h EXCEPT
       !.own = IF d.batter = Player THEN OwnDelivery(@, d) ELSE @,
       !.others = @ + (IF d.batter = Player THEN 0 ELSE 1),
       !.out_any = @ \/ NamesPlayer(d),
       !.out_facing = @ \/ (d.batter = Player /\ NamesPlayer(d)),
       !.faced = @ + (IF d.batter = Player /\ "wides" \notin DOMAIN d.extras
                      THEN 1 ELSE 0),
       !.wide = @ \/ (d.batter = Player /\ "wides" \in DOMAIN d.extras)]

HistBowling(h, d) ==
    LET mine == d.bowler = Player
        illegal == {"wides", "noballs"} \cap DOMAIN d.extras # {}
        wk == IF mine THEN Cardinality(NonRunOut(d)) ELSE 0
    IN  [h EXCEPT
           !.legal = @ + (IF mine /\ ~illegal THEN 1 ELSE 0),
           !.over_legal = @ + (IF mine /\ ~illegal THEN 1 ELSE 0),
           !.over_mine = @ + (IF mine THEN 1 ELSE 0),
           !.both = @ \/ (mine /\ {"wides", "noballs"} \subseteq DOMAIN d.extras),
           !.over_wides = @ + (IF mine /\ "wides" \in DOMAIN d.extras
                               THEN 1 ELSE 0),
           !.over_nb = @ + (IF mine /\ "noballs" \in DOMAIN d.extras
                               /\ "wides" \notin DOMAIN d.extras
                            THEN 1 ELSE 0),
           !.wide = @ \/ (mine /\ "wides" \in DOMAIN d.extras),
           !.over_wk = @ + wk,
           !.wk_all = @ + wk,
           !.multi = @ \/ wk > 1,
           !.run_out = @ \/ (mine /\ NonRunOut(d) # DOMAIN d.wickets)]

InningsIdle ==
    /\ fold = "none"
    /\ ipc = "done"
    /\ n_overs = 0
    /\ n_dels = 0
    /\ stats = BattingStats
    /\ over_stats = BowlingStats
    /\ inn_stats = BowlingStats
    /\ hist = NoHist

InningsStart ==
    /\ fold \in {"batting", "bowling"}
    /\ ipc = "overs"
    /\ n_overs = 0
    /\ n_dels = 0
    /\ stats = BattingStats
    /\ over_stats = BowlingStats
    /\ inn_stats = BowlingStats
    /\ hist = NoHist

\* for over in overs: the next over is entered.
NextOver ==
    /\ ipc = "overs"
    /\ n_overs < MaxOvers
    /\ n_overs' = n_overs + 1
    /\ over_stats' = BowlingStats
    /\ hist' = [hist EXCEPT !.over_legal = 0, !.over_wk = 0, !.over_mine = 0,
                             !.over_wides = 0, !.over_nb = 0]
    /\ ipc' = "deliveries"
    /\ UNCHANGED <<fold, n_dels, stats, inn_stats, delivery_vars, career_vars, discovery_vars, batch_vars>>

\* process_innings: one delivery of the over.
BattingDelivery ==
    /\ fold = "batting"
    /\ ipc = "deliveries"
    /\ n_dels < MaxDeliveries
    /\ \E d \in OverDeliveries :
          /\ stats' = add_batting(stats, process_delivery(d, Player))
          /\ hist' = HistBatting(hist, d)
    /\ n_dels' = n_dels + 1
    /\ UNCHANGED <<fold, ipc, n_overs, over_stats, inn_stats, delivery_vars, career_vars, discovery_vars, batch_vars>>

\* process_innings_bowling: one delivery of the over.
BowlingDelivery ==
    /\ fold = "bowling"
    /\ ipc = "deliveries"
    /\ n_dels < MaxDeliveries
    /\ \E d \in OverDeliveries :
          /\ over_stats' = add_bowling(over_stats, process_delivery_bowling(d, Player))
          /\ hist' = HistBowling(hist, d)
    /\ n_dels' = n_dels + 1
    /\ UNCHANGED <<fold, ipc, n_overs, stats, inn_stats, delivery_vars, career_vars, discovery_vars, batch_vars>>

\* The over's deliveries are exhausted.
EndOver ==
    /\ ipc = "deliveries"
    /\ inn_stats' = IF fold = "bowling" THEN merge_over(inn_stats, over_stats)
                    ELSE inn_stats
    /\ hist' = [hist EXCEPT
                  !.wk_merged =
                      IF fold = "bowling" /\ over_stats.balls > 0
                      THEN @ + hist.over_wk ELSE @,
                  !.mine_merged =
                      IF hist.over_legal > 0 THEN @ + hist.over_mine ELSE @]
    /\ ipc' = "overs"
    /\ UNCHANGED <<fold, n_overs, n_dels, stats, over_stats, delivery_vars, career_vars, discovery_vars, batch_vars>>

\* return stats
ReturnStats ==
    /\ ipc = "overs"
    /\ ipc' = "done"
    /\ UNCHANGED <<fold, n_overs, n_dels, stats, over_stats, inn_stats, hist, delivery_vars, career_vars, discovery_vars, batch_vars>>

InningsNext ==
    NextOver \/ BattingDelivery \/ BowlingDelivery \/ EndOver \/ ReturnStats

\* ------------------------------------------------- one career aggregated
\* The innings of a match file have the indexes 0 and 1.
InningIndexes == {0, 1}

\* A delivery the player faces from the other player.
Faced(run, isOut) ==
    [batter |-> Player, bowler |-> "Q", runs_batter |-> run,
     hasExtras |-> FALSE, extras |-> <<>>, runs_extras |-> 0,
     wickets |-> IF isOut THEN <<[player_out |-> Player, kind |-> "bowled"]>>
                 ELSE <<>>]

\* A legal delivery the player bowls to the other player.
Bowled(run, isOut) ==
    [batter |-> "Q", bowler |-> Player, runs_batter |-> run,
     hasExtras |-> FALSE, extras |-> <<>>, runs_extras |-> 0,
     wickets |-> IF isOut THEN <<[player_out |-> "Q", kind |-> "bowled"]>>
                 ELSE <<>>]

\* A wide bowled to the player, who is stumped off it if isOut.
FacedWide(isOut) ==
    [batter |-> Player, bowler |-> "Q", runs_batter |-> 0,
     hasExtras |-> TRUE, extras |-> [k \in {"wides"} |-> 1], runs_extras |-> 1,
     wickets |-> IF isOut THEN <<[player_out |-> Player, kind |-> "stumped"]>>
                 ELSE <<>>]

\* A wide the player bowls to the other player.
BowledWide ==
    [batter |-> "Q", bowler |-> Player, runs_batter |-> 0,
     hasExtras |-> TRUE, extras |-> [k \in {"wides"} |-> 1], runs_extras |-> 1,
     wickets |-> <<>>]

Rep(d, n) == [i \in 1..n |-> d]

RECURSIVE process_over_batting(_, _, _)
\* process_innings, the inner loop: the deliveries of an over from i on.
process_over_batting(s, deliveries, i) ==
    IF i > Len(deliveries) THEN s
    ELSE process_over_batting(
             add_batting(s, process_delivery(deliveries[i], Player)),
             deliveries, i + 1)

RECURSIVE process_innings_from(_, _, _)
\* process_innings, the outer loop: the overs from o on.
process_innings_from(s, overs, o) ==
    IF o > Len(overs) THEN s
    ELSE process_innings_from(process_over_batting(s, overs[o], 1), overs, o + 1)

process_innings(overs) == process_innings_from(BattingStats, overs, 1)

RECURSIVE process_over_bowling(_, _, _)
\* process_innings_bowling, the inner loop: over_stats from delivery i on.
process_over_bowling(o_stats, deliveries, i) ==
    IF i > Len(deliveries) THEN o_stats
    ELSE process_over_bowling(
             add_bowling(o_stats, process_delivery_bowling(deliveries[i], Player)),
             deliveries, i + 1)

RECURSIVE process_innings_bowling_from(_, _, _)
\* process_innings_bowling, the outer loop: the overs from o on.
process_innings_bowling_from(s, overs, o) ==
    IF o > Len(overs) THEN s
    ELSE process_innings_bowling_from(
             merge_over(s, process_over_bowling(BowlingStats, overs[o], 1)),
             overs, o + 1)

process_innings_bowling(overs) ==
    process_innings_bowling_from(BowlingStats, overs, 1)

\* The innings of the corpus, as the player's part in them: he did not bat;
\* stumped off a wide, his only delivery; out first ball for 0; 10 not out
\* off two balls; out for 4 first ball.
BattingInnings ==
    {<<>>,
     << <<FacedWide(TRUE)>> >>,
     << <<Faced(0, TRUE)>> >>,
     << <<Faced(4, FALSE), Faced(6, FALSE)>> >>,
     << <<Faced(4, TRUE)>> >>}

\* He did not bowl; he bowled one wide and no more; 5 balls for 4 runs and
\* a wicket; an over of singles; two overs, a maiden and one of three
\* wickets and a four.
BowlingInnings ==
    {<<>>,
     << <<BowledWide>> >>,
     << <<Bowled(0, TRUE), Bowled(0, FALSE), Bowled(0, FALSE),
          Bowled(4, FALSE), Bowled(0, FALSE)>> >>,
     << Rep(Bowled(1, FALSE), 6) >>,
     << Rep(Bowled(0, FALSE), 6),
        <<Bowled(0, TRUE), Bowled(0, TRUE), Bowled(0, TRUE),
          Bowled(4, FALSE), Bowled(0, FALSE), Bowled(0, FALSE)>> >>}

\* float('inf'), which no average equals.
Inf == -1

\* round(n / d, 2) in hundredths, d > 0: to the nearest hundredth, a tie to
\* the even one.
Round2(n, d) ==
    LET q == (100 * n) \div d
        r == (100 * n) % d
    IN  IF 2 * r < d THEN q
        ELSE IF 2 * r > d THEN q + 1
        ELSE IF q % 2 = 0 THEN q ELSE q + 1

Max(a, b) == IF a >= b THEN a ELSE b

\* seq[-5:]
Last5(seq) ==
    IF Len(seq) <= 5 THEN seq ELSE SubSeq(seq, Len(seq) - 4, Len(seq))

\* seq[::-1]
Reversed(seq) == [i \in 1..Len(seq) |-> seq[Len(seq) + 1 - i]]

\* The weights 1.5, 1.3, 1.1, 0.9, 0.7, in tenths.
Weights == <<15, 13, 11, 9, 7>>

RECURSIVE zip_sum(_, _, _)
\* sum(s * w for s, w in zip(xs, ws)), from position i on.
zip_sum(xs, ws, i) ==
    IF i > Len(xs) \/ i > Len(ws) THEN 0
    ELSE xs[i] * ws[i] + zip_sum(xs, ws, i + 1)

\* A mutant of form_index_of: the weights are applied oldest first.
form_index_oldest_first(recent) ==
    IF recent = <<>> THEN 0 ELSE 2 * zip_sum(recent, Weights, 1)

\* round(sum(...) / 5, 2) if recent else 0.0, in hundredths: the sum in
\* tenths, over 5, is 2 hundredths per unit.
form_index_of(recent) ==
    IF recent = <<>> THEN 0 ELSE 2 * zip_sum(Reversed(recent), Weights, 1)

Count(seq, P(_)) == Cardinality({i \in DOMAIN seq : P(seq[i])})

\* A mutant of batting_average: the raw run total when nobody was out.
batting_average_raw_runs(runs, innings_count, not_outs) ==
    IF innings_count - not_outs > 0
    THEN Round2(runs, innings_count - not_outs)
    ELSE IF runs > 0 THEN 100 * runs ELSE 0

\* The "average" of the batting record, in hundredths or Inf.
batting_average(runs, innings_count, not_outs) ==
    IF innings_count - not_outs > 0
    THEN Round2(runs, innings_count - not_outs)
    ELSE IF runs > 0 THEN Inf ELSE 0

NoTotals ==
    [highest_score |-> 0, outs |-> 0, runs |-> 0, balls_faced |-> 0,
     fours |-> 0, sixes |-> 0, dot_balls |-> 0, boundary_balls |-> 0]

\* get_batting_stats, the body of the loop for an innings batted in.
add_innings(t, s) ==
    [highest_score |-> Max(t.highest_score, s.runs),
     outs |-> t.outs + (IF s.out THEN 1 ELSE 0),
     runs |-> t.runs + s.runs,
     balls_faced |-> t.balls_faced + s.balls_faced,
     fours |-> t.fours + s.fours,
     sixes |-> t.sixes + s.sixes,
     dot_balls |-> t.dot_balls + s.dot_balls,
     boundary_balls |-> t.boundary_balls + s.boundary_balls]

\* The record get_batting_stats returns (the ratios other than the average
\* are left out).
batting_record ==
    LET not_outs ==
            Cardinality({k \in DOMAIN innings_out_flags : ~innings_out_flags[k]})
        innings_count == Cardinality(innings_played)
        recent_scores == Last5(innings_scores)
    IN  [returned |-> "dict",
         matches |-> Cardinality(matches_played),
         innings |-> innings_count,
         not_outs |-> not_outs,
         runs |-> totals.runs,
         average |-> batting_average(totals.runs, innings_count, not_outs),
         balls_faced |-> totals.balls_faced,
         fours |-> totals.fours,
         sixes |-> totals.sixes,
         highest_score |-> totals.highest_score,
         fifties |-> Count(innings_scores, LAMBDA x : 50 <= x /\ x < 100),
         hundreds |-> Count(innings_scores, LAMBDA x : x >= 100),
         recent_scores |-> recent_scores,
         form_index |-> form_index_of(recent_scores)]

RECURSIVE sum_stats(_, _, _)
\* get_bowling_stats, the loop over all_stats from entry i on.
sum_stats(s, entries, i) ==
    IF i > Len(entries) THEN s
    ELSE sum_stats(add_bowling(s, entries[i][3]), entries, i + 1)

\* A mutant of overs_of: decimal overs, balls / 6, in tenths.
overs_decimal(balls) == Round2(balls, 60)

\* complete_overs + remaining_balls / 10.0, in tenths.
overs_of(balls) == 10 * (balls \div 6) + (balls % 6)

\* The record get_bowling_stats returns, or None (the percentages are left
\* out).
bowling_record ==
    LET s == sum_stats(BowlingStats, all_stats, 1)
        innings_wickets == [i \in DOMAIN all_stats |-> all_stats[i][3].wickets]
        overs == overs_of(s.balls)
        recent_wickets == Last5(innings_wickets)
    IN  IF s.balls = 0 THEN [returned |-> "None"]
        ELSE [returned |-> "dict",
              matches |-> Cardinality(matches_played),
              innings |-> Cardinality(innings_played),
              overs |-> overs,
              balls |-> s.balls,
              runs_conceded |-> s.runs_conceded,
              wickets |-> s.wickets,
              average |-> IF s.wickets > 0
                          THEN Round2(s.runs_conceded, s.wickets) ELSE 0,
              economy |-> IF overs > 0
                          THEN Round2(10 * s.runs_conceded, overs) ELSE 0,
              strike_rate |-> IF s.wickets > 0
                              THEN Round2(s.balls, s.wickets) ELSE 0,
              extras |-> s.extras,
              wides |-> s.wides,
              no_balls |-> s.no_balls,
              three_wicket_hauls |-> Count(innings_wickets, LAMBDA x : x >= 3),
              five_wicket_hauls |-> Count(innings_wickets, LAMBDA x : x >= 5),
              recent_wickets |-> recent_wickets,
              form_index |-> form_index_of(recent_wickets)]

\* The innings read so far, kept beside the program's state:
\*   values      the runs (batting) or wickets (bowling) of the innings the
\*               player took part in, in the order the innings were read
\*   balls       the legal balls the player bowled in the innings read
\*   read        the innings read, as <<match_id, inning_idx>>
\*   part        those of them in which the player faced (batting) or
\*               bowled (bowling) a legal ball
\*   legal       the legal balls he faced / bowled in all innings read
\*   not_out     those of part in which no delivery he faced dismissed him
NoCareerHist ==
    [values |-> <<>>, balls |-> 0, read |-> {}, part |-> {}, legal |-> 0,
     not_out |-> {}]

\* The deliveries of an innings, as <<over, place in the over>>.
Places(overs) ==
    UNION {{<<o, i>> : i \in DOMAIN overs[o]} : o \in DOMAIN overs}

\* The deliveries of an innings the player faced that are not wides.
FacedIn(overs) ==
    {x \in Places(overs) :
        LET d == overs[x[1]][x[2]]
        IN  d.batter = Player /\ "wides" \notin DOMAIN d.extras}

\* The deliveries of an innings the player bowled that are neither wides
\* nor no-balls.
BowledIn(overs) ==
    {x \in Places(overs) :
        LET d == overs[x[1]][x[2]]
        IN  d.bowler = Player
            /\ {"wides", "noballs"} \cap DOMAIN d.extras = {}}

\* A delivery of the innings that the player faced dismissed him.
DismissedIn(overs) ==
    \E x \in Places(overs) :
        LET d == overs[x[1]][x[2]]
        IN  d.batter = Player /\ NamesPlayer(d)

CareerHist(h, key, legal, isOut) ==
    [h EXCEPT
       !.read = @ \cup {key},
       !.part = IF legal > 0 THEN @ \cup {key} ELSE @,
       !.legal = @ + legal,
       !.not_out = IF legal > 0 /\ ~isOut THEN @ \cup {key} ELSE @]

\* A mutant of participated: every innings read is an innings played.
participated_always(s) == TRUE

\* get_batting_stats: the player took part in the innings.
participated(s) == s.balls_faced > 0

\* process_matches_for_player: the player took part in the innings, for the
\* stats of process_innings_bowling, which have no balls_faced.
participated_bowling(s) ==
    IF "balls_faced" \in DOMAIN s THEN s.balls_faced > 0
    ELSE "balls" \in DOMAIN s /\ s.balls > 0

CareerIdle ==
    /\ career = "none"
    /\ cpc = "done"
    /\ match_id = 0
    /\ inning_idx = 0
    /\ matches_played = {}
    /\ innings_played = {}
    /\ totals = NoTotals
    /\ innings_out_flags = <<>>
    /\ innings_scores = <<>>
    /\ all_stats = <<>>
    /\ result = [returned |-> "nothing"]
    /\ chist = NoCareerHist

CareerStart ==
    /\ career \in {"batting", "bowling"}
    /\ cpc = "files"
    /\ match_id = 0
    /\ inning_idx = 0
    /\ matches_played = {}
    /\ innings_played = {}
    /\ totals = NoTotals
    /\ innings_out_flags = <<>>
    /\ innings_scores = <<>>
    /\ all_stats = <<>>
    /\ result = [returned |-> "nothing"]
    /\ chist = NoCareerHist

\* for json_file in sorted_json_files: the next file is opened.
OpenFile ==
    /\ cpc = "files"
    /\ match_id < MaxMatches
    /\ match_id' = match_id + 1
    /\ inning_idx' = 0
    /\ cpc' = "innings"
    /\ UNCHANGED <<career, matches_played, innings_played, totals,
                   innings_out_flags, innings_scores, all_stats, result, chist,
                   delivery_vars, innings_vars, discovery_vars, batch_vars>>

\* get_batting_stats: one innings of the file.
BattingInningsStep ==
    /\ career = "batting"
    /\ cpc = "innings"
    /\ inning_idx \in InningIndexes
    /\ \E overs \in BattingInnings :
         LET s == process_innings(overs)
             key == <<match_id, inning_idx>>
             h == CareerHist(chist, key, Cardinality(FacedIn(overs)),
                             DismissedIn(overs))
         IN  IF participated(s)
             THEN /\ matches_played' = matches_played \cup {match_id}
                  /\ innings_played' = innings_played \cup {key}
                  /\ totals' = add_innings(totals, s)
                  /\ innings_scores' = Append(innings_scores, s.runs)
                  /\ innings_out_flags' =
                         [k \in DOMAIN innings_out_flags \cup {key} |->
                             IF k = key THEN s.out ELSE innings_out_flags[k]]
                  /\ chist' = [h EXCEPT !.values = Append(@, s.runs)]
             ELSE /\ chist' = h
                  /\ UNCHANGED <<matches_played, innings_played, totals,
                                 innings_scores, innings_out_flags>>
    /\ inning_idx' = inning_idx + 1
    /\ UNCHANGED <<career, cpc, match_id, all_stats, result,
                   delivery_vars, innings_vars, discovery_vars, batch_vars>>

\* process_matches_for_player, for get_bowling_stats: one innings of the file.
BowlingInningsStep ==
    /\ career = "bowling"
    /\ cpc = "innings"
    /\ inning_idx \in InningIndexes
    /\ \E overs \in BowlingInnings :
         LET s == process_innings_bowling(overs)
             h == CareerHist(chist, <<match_id, inning_idx>>,
                             Cardinality(BowledIn(overs)), FALSE)
         IN  IF participated_bowling(s)
             THEN /\ matches_played' = matches_played \cup {match_id}
                  /\ innings_played' =
                         innings_played \cup {<<match_id, inning_idx>>}
                  /\ all_stats' = Append(all_stats, <<match_id, inning_idx, s>>)
                  /\ chist' = [h EXCEPT !.values = Append(@, s.wickets),
                                        !.balls = @ + s.balls]
             ELSE /\ chist' = h
                  /\ UNCHANGED <<matches_played, innings_played, all_stats>>
    /\ inning_idx' = inning_idx + 1
    /\ UNCHANGED <<career, cpc, match_id, totals, innings_out_flags,
                   innings_scores, result, delivery_vars, innings_vars, discovery_vars, batch_vars>>

\* The innings of the file are exhausted.
CloseFile ==
    /\ cpc = "innings"
    /\ cpc' = "files"
    /\ UNCHANGED <<career, match_id, inning_idx, matches_played,
                   innings_played, totals, innings_out_flags, innings_scores,
                   all_stats, result, chist, delivery_vars, innings_vars, discovery_vars, batch_vars>>

\* The files are exhausted: the derived metrics, and the return.
ReturnRecord ==
    /\ cpc = "files"
    /\ result' = IF career = "batting" THEN batting_record ELSE bowling_record
    /\ cpc' = "done"
    /\ UNCHANGED <<career, match_id, inning_idx, matches_played,
                   innings_played, totals, innings_out_flags, innings_scores,
                   all_stats, chist, delivery_vars, innings_vars, discovery_vars, batch_vars>>

CareerNext ==
    OpenFile \/ BattingInningsStep \/ BowlingInningsStep \/ CloseFile
    \/ ReturnRecord

\* ------------------------------------------------ the match files sorted
\* What a file of the folder holds, as far as the date is concerned:
\*   not_json     text that is not JSON
\*   no_info      an object without "info"
\*   no_dates     "info" without "dates"
\*   empty_dates  "dates": []
\*   null_dates   "dates": null
\*   null_first   "dates": [null]
\*   empty_first  "dates": [""]
\*   dated        "dates": [a date, ...]
UndatedShapes ==
    {"not_json", "no_info", "no_dates", "empty_dates", "null_dates",
     "null_first", "empty_first"}

\* Dates are ISO strings, compared as strings: 1..MaxDate stand for them in
\* that order, and 0 for no date.
Files ==
    [shape : UndatedShapes, date : {0}] \cup [shape : {"dated"}, date : 1..MaxDate]

Folders == UNION {[1..n -> Files] : n \in 0..MaxFiles}

\* json.load(f) and data.get("info", {}).get("dates", [None])[0]: the
\* exception raised, or the value of match_date (0: None or "").
match_date_of(file) ==
    CASE file.shape = "not_json" -> [raises |-> "JSONDecodeError", value |-> 0]
      [] file.shape = "no_info" -> [raises |-> "", value |-> 0]
      [] file.shape = "no_dates" -> [raises |-> "", value |-> 0]
      [] file.shape = "empty_dates" -> [raises |-> "IndexError", value |-> 0]
      [] file.shape = "null_dates" -> [raises |-> "TypeError", value |-> 0]
      [] file.shape = "null_first" -> [raises |-> "", value |-> 0]
      [] file.shape = "empty_first" -> [raises |-> "", value |-> 0]
      [] file.shape = "dated" -> [raises |-> "", value |-> file.date]

\* except (json.JSONDecodeError, KeyError, IndexError)
Caught == {"JSONDecodeError", "KeyError", "IndexError"}

RECURSIVE sort_by_date(_, _)
\* file_date_pairs.sort(key=lambda x: x[1]): a stable sort, from pair i on.
sort_by_date(pairs, i) ==
    IF i > Len(pairs) THEN <<>>
    ELSE IF i = Len(pairs) THEN <<pairs[i]>>
    ELSE LET rest == sort_by_date(pairs, i + 1)
         IN  IF \A j \in DOMAIN rest : pairs[i][2] <= rest[j][2]
             THEN <<pairs[i]>> \o rest
             ELSE LET k == CHOOSE k \in DOMAIN rest :
                              /\ rest[k][2] < pairs[i][2]
                              /\ \A j \in DOMAIN rest :
                                     rest[j][2] < pairs[i][2] => j <= k
                  IN  SubSeq(rest, 1, k) \o <<pairs[i]>>
                      \o SubSeq(rest, k + 1, Len(rest))

DiscoveryIdle ==
    /\ folder = <<>>
    /\ fpc = "done"
    /\ next_file = 1
    /\ file_date_pairs = <<>>
    /\ sorted_json_files = <<>>
    /\ opened = <<>>

DiscoveryStart ==
    /\ folder \in Folders
    /\ fpc = "glob"
    /\ next_file = 1
    /\ file_date_pairs = <<>>
    /\ sorted_json_files = <<>>
    /\ opened = <<>>

\* for json_file in folder_path.glob("*.json"): one file, kept with its date,
\* skipped, or the exception it raises leaving the function.
ReadDate ==
    /\ fpc = "glob"
    /\ next_file <= Len(folder)
    /\ LET r == match_date_of(folder[next_file])
       IN  IF r.raises # ""
           THEN /\ fpc' = IF r.raises \in Caught THEN "glob" ELSE "raised"
                /\ UNCHANGED file_date_pairs
           ELSE /\ file_date_pairs' =
                       IF r.value # 0
                       THEN Append(file_date_pairs, <<next_file, r.value>>)
                       ELSE file_date_pairs
                /\ UNCHANGED fpc
    /\ next_file' = next_file + 1
    /\ UNCHANGED <<folder, sorted_json_files, opened,
                   delivery_vars, innings_vars, career_vars, batch_vars>>

\* The sort, and the list of files returned.
SortByDate ==
    /\ fpc = "glob"
    /\ next_file > Len(folder)
    /\ LET sorted == sort_by_date(file_date_pairs, 1)
       IN  sorted_json_files' = [i \in DOMAIN sorted |-> sorted[i][1]]
    /\ fpc' = "read"
    /\ next_file' = 1
    /\ UNCHANGED <<folder, file_date_pairs, opened,
                   delivery_vars, innings_vars, career_vars, batch_vars>>

\* The aggregator: for json_file in sorted_json_files, the file is opened
\* and its innings are read.
ReadInnings ==
    /\ fpc = "read"
    /\ next_file <= Len(sorted_json_files)
    /\ opened' = Append(opened, sorted_json_files[next_file])
    /\ next_file' = next_file + 1
    /\ UNCHANGED <<folder, fpc, file_date_pairs, sorted_json_files,
                   delivery_vars, innings_vars, career_vars, batch_vars>>

\* The sorted files are exhausted.
EndOfFiles ==
    /\ fpc = "read"
    /\ next_file > Len(sorted_json_files)
    /\ fpc' = "done"
    /\ UNCHANGED <<folder, next_file, file_date_pairs, sorted_json_files,
                   opened, delivery_vars, innings_vars, career_vars, batch_vars>>

DiscoveryNext == ReadDate \/ SortByDate \/ ReadInnings \/ EndOfFiles

\* ------------------------------------------------------ the batch scripts
\* ThreadPoolExecutor(max_workers=10)
max_workers == 10

\* players.json: the sorted list of the players, here 1, 2, ...
BatchPlayers == 1..MaxPlayers

\* A mutant of StatsOf: the record depends on the run that computes it.
StatsOf_of_the_run(player) == <<"stats of", player, run_no>>

\* The record get_batting_stats / get_bowling_stats returns for a player on
\* the corpus: the same whenever it is computed.
StatsOf(player) == <<"stats of", player>>

NoReport == [completed |-> {}, errors |-> 0, skipped |-> 0]

Unwritten == [written |-> FALSE, pairs |-> <<>>]

\* A mutant of dict_set: the value of an existing key is kept, and a new key
\* is dropped when the dict is not empty.
dict_set_first_only(d, key, value) ==
    IF d = <<>> THEN <<<<key, value>>>> ELSE d

\* d[key] = value: a new key goes last, an existing key keeps its place.
dict_set(d, key, value) ==
    IF \E i \in DOMAIN d : d[i][1] = key
    THEN [i \in DOMAIN d |-> IF d[i][1] = key THEN <<key, value>> ELSE d[i]]
    ELSE Append(d, <<key, value>>)

BatchIdle ==
    /\ harness = "none"
    /\ outcome = <<>>
    /\ run_no = 1
    /\ bpc = "written"
    /\ future = <<>>
    /\ finished_set = {}
    /\ waiter = <<>>
    /\ yielded = {}
    /\ batch_stats = <<>>
    /\ reported = NoReport
    /\ output = <<Unwritten, Unwritten>>

\* players.json is loaded and every task is submitted.
BatchStart ==
    /\ harness \in {"batting", "bowling"}
    /\ outcome \in [BatchPlayers ->
                      IF harness = "batting" THEN {"stats", "raises"}
                      ELSE {"stats", "none", "raises"}]
    /\ run_no = 1
    /\ bpc = "submitted"
    /\ future = [p \in BatchPlayers |-> "queued"]
    /\ finished_set = {}
    /\ waiter = <<>>
    /\ yielded = {}
    /\ batch_stats = <<>>
    /\ reported = NoReport
    /\ output = <<Unwritten, Unwritten>>

\* A worker thread takes the oldest queued task.
StartTask(p) ==
    /\ future[p] = "queued"
    /\ \A q \in BatchPlayers : q < p => future[q] # "queued"
    /\ Cardinality({q \in BatchPlayers : future[q] = "running"}) < max_workers
    /\ future' = [future EXCEPT ![p] = "running"]
    /\ UNCHANGED <<harness, outcome, run_no, bpc, finished_set, waiter, yielded,
                   batch_stats, reported, output, delivery_vars, innings_vars,
                   career_vars, discovery_vars>>

\* process_player returns or raises: the future is finished, and the waiter
\* of as_completed, if installed, is told.
FinishTask(p) ==
    /\ future[p] = "running"
    /\ future' = [future EXCEPT ![p] = "finished"]
    /\ waiter' = IF bpc = "collecting" THEN Append(waiter, p) ELSE waiter
    /\ UNCHANGED <<harness, outcome, run_no, bpc, finished_set, yielded,
                   batch_stats, reported, output, delivery_vars, innings_vars,
                   career_vars, discovery_vars>>

\* as_completed(futures) is called: the futures finished by now are yielded
\* first, the others as they finish.
CallAsCompleted ==
    /\ bpc = "submitted"
    /\ finished_set' = {p \in BatchPlayers : future[p] = "finished"}
    /\ bpc' = "collecting"
    /\ UNCHANGED <<harness, outcome, run_no, future, waiter, yielded, batch_stats,
                   reported, output, delivery_vars, innings_vars, career_vars,
                   discovery_vars>>

\* The body of the loop for the future p: its result is stored, or it is
\* skipped (None, bowling), or its exception is caught and reported.
Collected(p) ==
    /\ yielded' = yielded \cup {p}
    /\ IF outcome[p] = "stats"
       THEN /\ batch_stats' = dict_set(batch_stats, p, StatsOf(p))
            /\ reported' = [reported EXCEPT !.completed = @ \cup {p}]
       ELSE IF outcome[p] = "none"
       THEN /\ reported' = [reported EXCEPT !.skipped = @ + 1]
            /\ UNCHANGED batch_stats
       ELSE /\ reported' = [reported EXCEPT !.errors = @ + 1]
            /\ UNCHANGED batch_stats

\* as_completed yields a future that was finished when it was called.
CollectFinished(p) ==
    /\ bpc = "collecting"
    /\ p \in finished_set
    /\ finished_set' = finished_set \ {p}
    /\ Collected(p)
    /\ UNCHANGED <<harness, outcome, run_no, bpc, future, waiter, output,
                   delivery_vars, innings_vars, career_vars, discovery_vars>>

\* as_completed yields the future that finished next.
CollectNext ==
    /\ bpc = "collecting"
    /\ finished_set = {}
    /\ waiter # <<>>
    /\ waiter' = Tail(waiter)
    /\ Collected(Head(waiter))
    /\ UNCHANGED <<harness, outcome, run_no, bpc, future, finished_set, output,
                   delivery_vars, innings_vars, career_vars, discovery_vars>>

\* Every future was yielded: the pool is shut down and json.dump writes the
\* dict, its keys in insertion order.
WriteOutput ==
    /\ bpc = "collecting"
    /\ yielded = BatchPlayers
    /\ output' = [output EXCEPT ![run_no] = [written |-> TRUE, pairs |-> batch_stats]]
    /\ bpc' = "written"
    /\ UNCHANGED <<harness, outcome, run_no, future, finished_set, waiter, yielded,
                   batch_stats, reported, delivery_vars, innings_vars,
                   career_vars, discovery_vars>>

\* The script is run_no again on the same corpus and players.
RunAgain ==
    /\ bpc = "written"
    /\ run_no = 1
    /\ run_no' = 2
    /\ bpc' = "submitted"
    /\ future' = [p \in BatchPlayers |-> "queued"]
    /\ finished_set' = {}
    /\ waiter' = <<>>
    /\ yielded' = {}
    /\ batch_stats' = <<>>
    /\ reported' = NoReport
    /\ UNCHANGED <<harness, outcome, output, delivery_vars, innings_vars,
                   career_vars, discovery_vars>>

BatchNext ==
    \/ \E p \in BatchPlayers : StartTask(p)
    \/ \E p \in BatchPlayers : FinishTask(p)
    \/ CallAsCompleted
    \/ \E p \in BatchPlayers : CollectFinished(p)
    \/ CollectNext
    \/ WriteOutput
    \/ RunAgain

\* ---------------------------------------------------------- specifications
\* The classifiers called on any one delivery.
DeliveryInit ==
    DeliveryStart /\ InningsIdle /\ CareerIdle /\ DiscoveryIdle /\ BatchIdle

SpecDelivery == DeliveryInit /\ [][DeliveryNext]_vars

\* One innings folded, for batting or for bowling.
InningsInit ==
    InningsStart /\ DeliveryIdle /\ CareerIdle /\ DiscoveryIdle /\ BatchIdle

SpecInnings == InningsInit /\ [][InningsNext]_vars

\* One player's career aggregated, for batting or for bowling.
CareerInit ==
    CareerStart /\ DeliveryIdle /\ InningsIdle /\ DiscoveryIdle /\ BatchIdle

SpecCareer == CareerInit /\ [][CareerNext]_vars

\* The match files of a folder found, sorted by date and read in that order.
DiscoveryInit ==
    DiscoveryStart /\ DeliveryIdle /\ InningsIdle /\ CareerIdle /\ BatchIdle

SpecDiscovery == DiscoveryInit /\ [][DiscoveryNext]_vars

\* A batch script run twice on the same corpus and players.
BatchInit ==
    BatchStart /\ DeliveryIdle /\ InningsIdle /\ CareerIdle /\ DiscoveryIdle

SpecBatch == BatchInit /\ [][BatchNext]_vars

\* ------------------------------------------------------------------ claims
\* C4, as stated: the out flag process_innings returns is true if and only
\* if some delivery of the innings, whoever is on strike, carries a wicket
\* entry whose player_out is the player.
C4_OutIffAnyDeliveryNamesPlayer ==
    (fold = "batting" /\ ipc = "done") => (stats.out <=> hist.out_any)

\* C4, amended: the out flag process_innings accumulates is true if and only
\* if some delivery of the innings that the player faced (batter = player)
\* carries a wicket entry whose player_out is the player, whatever its kind.
C4_OutIffDismissedOnStrike ==
    fold = "batting" => (stats.out <=> hist.out_facing)

C4_Witness ==
    /\ fold = "batting"
    /\ ipc = "done"
    /\ stats.out
    /\ hist.out_facing
    /\ n_overs = MaxOvers

\* C5, as stated: on a delivery bowled by the player the runs conceded are
\* the batter runs plus the wides and no-balls amounts; bye and leg-bye
\* amounts are never included, whatever kinds of extras the delivery has.
C5_ByesNeverConceded ==
    ("bowling" \in called /\ arg.bowler = Player) =>
        bowl_d.runs_conceded =
            arg.runs_batter + Amount(arg.extras, "wides")
            + Amount(arg.extras, "noballs")

\* C6: the wickets credited to the bowler are the wicket entries, on his
\* deliveries, whose kind is not "run out", one per entry; the over's
\* sub-total is their sum over the over and the innings tally their sum
\* over the overs that were merged.
C6_WicketsAreNonRunOutEntries ==
    fold = "bowling" =>
        /\ over_stats.wickets = hist.over_wk
        /\ inn_stats.wickets = hist.wk_merged

C6_Witness ==
    /\ fold = "bowling"
    /\ ipc = "done"
    /\ hist.multi
    /\ hist.run_out
    /\ inn_stats.wickets >= 2
    /\ inn_stats.wickets = hist.wk_merged

\* C7: a wide never counts as a ball faced nor as a legal ball: balls_faced
\* is the number of non-wide deliveries the player faced, and balls the
\* number of deliveries he bowled that are neither wides nor no-balls, in
\* the over and, once the over is merged, in the innings.
C7_WidesNeverCountAsBalls ==
    /\ fold = "batting" => stats.balls_faced = hist.faced
    /\ fold = "bowling" =>
          /\ over_stats.balls = hist.over_legal
          /\ ipc \in {"overs", "done"} => inn_stats.balls = hist.legal
          /\ ipc = "deliveries" =>
                inn_stats.balls + over_stats.balls = hist.legal

C7_Witness ==
    /\ fold = "bowling"
    /\ ipc = "done"
    /\ hist.wide
    /\ n_dels = MaxDeliveries
    /\ inn_stats.balls = 1

Abs(x) == IF x >= 0 THEN x ELSE -x

\* C1, as stated: the batting average is runs / (innings - not_outs) when
\* that denominator is positive (to the hundredth); with a denominator of 0
\* it is the raw run total if runs > 0, and 0.0 otherwise.
C1_AverageIsRunsWhenNeverOut ==
    (career = "batting" /\ cpc = "done") =>
        LET d == result.innings - result.not_outs
        IN  /\ d > 0 => 2 * Abs(result.average * d - 100 * result.runs) <= d
            /\ (d = 0 /\ result.runs > 0) => result.average = 100 * result.runs
            /\ (d = 0 /\ result.runs = 0) => result.average = 0

\* C1, amended: the batting average is runs / (innings - not_outs) when
\* that denominator is positive (to the hundredth); with a denominator of 0
\* it is float('inf') if runs > 0, and 0.0 otherwise.
C1_AverageIsInfWhenNeverOut ==
    (career = "batting" /\ cpc = "done") =>
        LET d == result.innings - result.not_outs
        IN  /\ d > 0 => 2 * Abs(result.average * d - 100 * result.runs) <= d
            /\ (d = 0 /\ result.runs > 0) => result.average = Inf
            /\ (d = 0 /\ result.runs = 0) => result.average = 0

\* One not-out innings of 10 runs.
C1_Witness ==
    /\ career = "batting"
    /\ cpc = "done"
    /\ result.innings = 1
    /\ result.not_outs = 1
    /\ result.runs = 10
    /\ result.average = Inf

\* C8: form_index is the sum, over the up to 5 most recent values of the
\* innings the player took part in, most recent first, of the value times
\* the weight 1.5, 1.3, 1.1, 0.9, 0.7 of its place, over 5 (here in
\* hundredths); recent_scores / recent_wickets are those values, oldest
\* first; one value S gives S * 1.5 / 5, and no value gives 0.0.
C8_FormIndexWeightsMostRecentFirst ==
    (cpc = "done" /\ career # "none" /\ result.returned = "dict") =>
        LET v == chist.values
            n == Len(v)
            k == IF n < 5 THEN n ELSE 5
            term(i) == IF i <= n THEN Weights[i] * v[n + 1 - i] ELSE 0
            recent == IF career = "batting" THEN result.recent_scores
                      ELSE result.recent_wickets
        IN  /\ result.form_index
                  = 2 * (term(1) + term(2) + term(3) + term(4) + term(5))
            /\ recent = [i \in 1..k |-> v[n - k + i]]
            /\ n = 1 => result.form_index = 30 * v[1]
            /\ n = 0 => result.form_index = 0

C8_Witness ==
    /\ cpc = "done"
    /\ career = "batting"
    /\ Len(chist.values) = 6
    /\ chist.values[1] = 10
    /\ chist.values[2] = 4
    /\ chist.values[6] = 10
    /\ result.form_index = 2 * (15 * 10 + 7 * 4)

\* C9: with B > 0 legal balls in all, overs is (B div 6) + (B mod 6) / 10
\* (here in tenths: 23 balls give 3.5, 24 balls 4.0, the last digit is at
\* most 5), and economy is runs_conceded over that value (to the
\* hundredth).
C9_OversInCricketNotation ==
    (career = "bowling" /\ cpc = "done") =>
        IF chist.balls = 0 THEN result.returned = "None"
        ELSE LET B == result.balls
             IN  /\ B = chist.balls
                 /\ result.overs = 10 * (B \div 6) + (B % 6)
                 /\ result.overs % 10 <= 5
                 /\ B = 23 => result.overs = 35
                 /\ B = 24 => result.overs = 40
                 /\ 2 * Abs(result.economy * result.overs
                            - 1000 * result.runs_conceded) <= result.overs

C9_Witness ==
    /\ career = "bowling"
    /\ cpc = "done"
    /\ result.returned = "dict"
    /\ result.balls = 23
    /\ result.overs = 35
    /\ result.runs_conceded = 14
    /\ result.economy = 400

\* C10, as stated: a malformed file (not JSON, or without a usable first
\* date: no info, dates missing, empty or null) is skipped without an
\* exception leaving the discovery; the files read afterwards are the dated
\* files, each once, in ascending order of their date.
C10_MalformedFilesNeverFatal ==
    /\ fpc # "raised"
    /\ fpc = "done" =>
          /\ \A i \in DOMAIN opened : folder[opened[i]].shape = "dated"
          /\ \A f \in DOMAIN folder :
                folder[f].shape = "dated" =>
                    Cardinality({i \in DOMAIN opened : opened[i] = f}) = 1
          /\ \A i, j \in DOMAIN opened :
                i < j => folder[opened[i]].date <= folder[opened[j]].date

\* ------------------------------------------------------------ C2 and C3
Keys(pairs) == {pairs[i][1] : i \in DOMAIN pairs}

Entries(pairs, player) == {i \in DOMAIN pairs : pairs[i][1] = player}

BothWritten == output[1].written /\ output[2].written

\* C2, as stated: run twice on the same corpus and players, the batch script
\* writes the same bytes whatever the order the tasks complete in: the same
\* player keys in the same serialized order with the same records.
C2_OutputByteIdentical ==
    BothWritten => output[1].pairs = output[2].pairs

\* C2, amended: run twice on the same corpus and players, the batch script
\* writes the same JSON object whatever the order the tasks complete in: the
\* same player keys, each once, with the same records; the order of the keys
\* is left free.
C2_OutputSameMapping ==
    BothWritten =>
        /\ {output[1].pairs[i] : i \in DOMAIN output[1].pairs}
             = {output[2].pairs[i] : i \in DOMAIN output[2].pairs}
        /\ \A r \in {1, 2} :
               Cardinality(Keys(output[r].pairs)) = Len(output[r].pairs)

\* The two runs wrote two players or more, in two different orders.
C2_Witness ==
    /\ BothWritten
    /\ Len(output[1].pairs) >= 2
    /\ output[1].pairs # output[2].pairs
    /\ Keys(output[1].pairs) = Keys(output[2].pairs)

C11_OverMergedIffLegalBall ==
    [][(fold = "bowling" /\ ipc = "deliveries" /\ ipc' = "overs") =>
          /\ (hist.over_legal > 0 <=> over_stats.balls > 0)
          /\ (hist.over_legal > 0 =>
                 /\ inn_stats'.runs_conceded
                      = inn_stats.runs_conceded + over_stats.runs_conceded
                 /\ inn_stats'.balls = inn_stats.balls + over_stats.balls
                 /\ inn_stats'.wickets = inn_stats.wickets + over_stats.wickets
                 /\ inn_stats'.dot_balls
                      = inn_stats.dot_balls + over_stats.dot_balls
                 /\ inn_stats'.boundary_balls
                      = inn_stats.boundary_balls + over_stats.boundary_balls
                 /\ inn_stats'.extras = inn_stats.extras + over_stats.extras
                 /\ inn_stats'.wides = inn_stats.wides + over_stats.wides
                 /\ inn_stats'.no_balls
                      = inn_stats.no_balls + over_stats.no_balls)
          /\ (hist.over_legal = 0 => inn_stats' = inn_stats)]_vars

\* The second over has ended: in it the player bowled no legal ball but a
\* wide with a wicket and runs conceded; the first over was merged, and the
\* innings total shows nothing of the second.
C11_Witness ==
    /\ fold = "bowling"
    /\ ipc = "overs"
    /\ n_overs = 2
    /\ hist.over_legal = 0
    /\ over_stats.balls = 0
    /\ over_stats.wides > 0
    /\ over_stats.runs_conceded > 0
    /\ over_stats.wickets > 0
    /\ inn_stats.balls > 0
    /\ inn_stats.wides = 0
    /\ inn_stats.extras = 0
    /\ inn_stats.runs_conceded = 0
    /\ inn_stats.wickets = 0

\* ------------------------------------------------------------------ C12
\* C12: after any sequence of matches, an innings read is in innings_played,
\* and its match in matches_played, exactly when the player faced (batting)
\* or bowled (bowling) a legal ball in it; only those innings are in the
\* career totals, in the lists of scores / wicket tallies and in the
\* not-out flags; `innings` is their number, `matches` the number of the
\* distinct matches holding one, and matches <= innings.
C12_ParticipationIffBalls ==
    LET matches == {k[1] : k \in chist.part}
    IN  /\ chist.part \subseteq chist.read
        /\ innings_played = chist.part
        /\ matches_played = matches
        /\ Len(chist.values) = Cardinality(chist.part)
        /\ career = "batting" =>
              /\ DOMAIN innings_out_flags = chist.part
              /\ Len(innings_scores) = Cardinality(chist.part)
              /\ totals.balls_faced = chist.legal
              /\ {k \in chist.part : ~innings_out_flags[k]} = chist.not_out
        /\ career = "bowling" =>
              /\ {<<all_stats[i][1], all_stats[i][2]>> : i \in DOMAIN all_stats}
                   = chist.part
              /\ Len(all_stats) = Cardinality(chist.part)
              /\ \A i \in DOMAIN all_stats : all_stats[i][3].balls > 0
        /\ (cpc = "done" /\ result.returned = "dict") =>
              /\ result.innings = Cardinality(chist.part)
              /\ result.matches = Cardinality(matches)
              /\ result.matches <= result.innings
              /\ career = "batting" =>
                    /\ result.not_outs = Cardinality(chist.not_out)
                    /\ result.balls_faced = chist.legal
              /\ career = "bowling" => result.balls = chist.legal
        /\ (cpc = "done" /\ result.returned = "None") => chist.part = {}

\* The batting record of three matches and five innings read: the player
\* faced a legal ball in three of them, which lie in two matches; the two
\* others (he did not bat, or was only stumped off a wide) are no innings
\* and no match of his.
C12_Witness ==
    /\ career = "batting"
    /\ cpc = "done"
    /\ Cardinality(chist.read) = 5
    /\ Cardinality(chist.part) = 3
    /\ result.innings = 3
    /\ result.matches = 2
    /\ result.not_outs = 3
    /\ result.runs = 30

\* ------------------------------------------------------------------ C13
\* C13: a delivery whose batter is not the player adds the all-zero outcome
\* (no ball faced, no run, four, six, dot or boundary ball, not out): after
\* only such deliveries the totals of process_innings are all zero, and at
\* every point of the innings they are the totals of the deliveries the
\* player faced alone, wherever the deliveries of other batters lie
\* between them.
C13_OtherBattersLeaveTotalsUnchanged ==
    fold = "batting" =>
        /\ stats = hist.own
        /\ (n_dels = hist.others) => stats = BattingStats

\* The innings is over: of its three deliveries the player faced one, a
\* four, and the other batter two, one of which has a wicket entry naming
\* the player; his totals are those of the four, and he is not out.
C13_Witness ==
    /\ fold = "batting"
    /\ ipc = "done"
    /\ n_dels = 3
    /\ hist.others = 2
    /\ hist.out_any
    /\ stats = [BattingStats EXCEPT !.balls_faced = 1, !.runs = 4,
                                    !.fours = 1, !.boundary_balls = 1]

\* ------------------------------------------------------------------ C14
\* The invariant of the bowling counters t, of which n deliveries of the
\* player's were counted.
BowlingCountersFit(t, n) ==
    /\ t.balls + t.wides + t.no_balls = n
    /\ t.extras <= t.balls + t.wides + t.no_balls
    /\ t.dot_balls + t.boundary_balls <= t.balls
    /\ 0 <= 100 * t.extras
    /\ 100 * t.extras <= 100 * (t.balls + t.wides + t.no_balls)

\* C14: in the bowling fold, for one delivery, an over and the innings,
\* balls + wides + no_balls is the number of the player's deliveries that
\* were counted, each delivery being a legal ball, a wide or a no-ball and
\* never two of them (wides and noballs together count as a wide); extras
\* is at most that number, so extras over it lies between 0 and 100 per
\* cent, and dot_balls + boundary_balls is at most balls.
C14_EveryDeliveryCountedOnce ==
    fold = "bowling" =>
        /\ BowlingCountersFit(over_stats, hist.over_mine)
        /\ over_stats.balls = hist.over_legal
        /\ over_stats.wides = hist.over_wides
        /\ over_stats.no_balls = hist.over_nb
        /\ BowlingCountersFit(inn_stats, hist.mine_merged)
        /\ inn_stats.balls = hist.legal - (IF ipc = "deliveries"
                                           THEN hist.over_legal ELSE 0)

\* The innings is over: in its one over the player bowled a delivery with
\* wides and noballs, counted as a wide, a no-ball, and a legal ball off
\* which byes were run; all three are extras.
C14_Witness ==
    /\ fold = "bowling"
    /\ ipc = "done"
    /\ n_overs = 1
    /\ inn_stats.balls = 1
    /\ inn_stats.wides = 1
    /\ inn_stats.no_balls = 1
    /\ inn_stats.extras = 3
    /\ hist.mine_merged = 3
    /\ hist.both
    /\ hist.over_wides = 1
    /\ hist.over_nb = 1

====
